---- MODULE Spec2Model ----
(***************************************************************************)
(* ServerManager of mcp_use/agents/server_manager.py as a state machine.   *)
(*                                                                         *)
(* The manager's fields are the variables active_server, server_tools     *)
(* (the field _server_tools) and initialized_servers.  The two            *)
(* collaborators (MCPClient, LangChainAdapter) are outside the module:    *)
(* the registry returned by get_server_names is fixed by Init, and every  *)
(* other collaborator call answers nondeterministically with a value or   *)
(* a raised exception.  connect_to_server is a coroutine: it is cut at    *)
(* its two awaits on collaborators (create_session, line 139, and         *)
(* create_langchain_tools, line 147); the code between two awaits runs    *)
(* without interruption on the event loop and is one step.                 *)
(***************************************************************************)
EXTENDS Integers, Sequences, FiniteSets, TLC

\* ---------------------------------------------------------------- bounds

\* Largest number of configured servers in the registry.
MaxServers == 2

\* Largest number of tools the adapter builds for one server.
MaxTools == 2

\* Server names are opaque strings; the empty string is one of them.
ServerNames == {"", "a", "b"}

\* The callers (asyncio tasks) that may invoke connect_to_server / switch_server.
Tasks == {"t1", "t2"}

\* ---------------------------------------------------------------- values

\* Optional[str]: None is the empty tuple, a string s is <<s>>.
None == <<>>

Some(s) == <<s>>

\* Python truthiness of an Optional[str]: None and "" are falsy.
Falsy(v) == v = None \/ v = Some("")

\* dict helpers: a dict is a function whose DOMAIN is its key set.
EmptyDict == [k \in {} |-> <<>>]

DictSet(d, k, v) == [x \in (DOMAIN d) \cup {k} |-> IF x = k THEN v ELSE d[x]]

DictGet(d, k, default) == IF k \in DOMAIN d THEN d[k] ELSE default

\* The order in which a client configuration lists the names it holds.
NameOrder == <<"a", "", "b">>

\* The subsequences of q (order kept) of length at most n.
RECURSIVE SubSeqs(_, _)
SubSeqs(q, n) ==
    IF Len(q) = 0 \/ n = 0 THEN {<<>>}
    ELSE SubSeqs(Tail(q), n) \cup {<<Head(q)>> \o r : r \in SubSeqs(Tail(q), n - 1)}

\* The registries a client configuration can hold (dict keys: distinct names).
Registries == SubSeqs(NameOrder, MaxServers)

\* A BaseTool object.  Server tools carry id >= 1, management tools id 0.
ServerTool(i) ==
    [name |-> "server_tool", args_schema |-> "", coroutine |-> "", id |-> i]

\* What the adapter can build for a connector: a list of 0..n tools.
ToolLists(n) == {[i \in 1..k |-> ServerTool(i)] : k \in 0..n}

\* A collaborator's answer: raises = "" is a normal return of value.
Returned(v) == [raises |-> "", value |-> v]

Raised(e) == [raises |-> e, value |-> <<>>]

\* "ValueError" is MCPClient's no-session signal; "Exception" is any other
\* subclass of Exception.
Errors == {"ValueError", "Exception"}

Session(name) == [connector |-> name]

SessionOutcomes(name) == {Returned(<<Session(name)>>)} \cup {Raised(e) : e \in Errors}

AdapterOutcomes == {Returned(tl) : tl \in ToolLists(MaxTools)} \cup {Raised(e) : e \in Errors}

\* Decimal rendering of a small number inside an f-string.
NumStr(n) == <<"0", "1", "2", "3", "4", "5", "6", "7", "8", "9">>[n + 1]

\* ", ".join(servers), kept as the sequence of its pieces.
RECURSIVE Join(_)
Join(servers) ==
    IF Len(servers) = 0 THEN <<>>
    ELSE IF Len(servers) = 1 THEN <<servers[1]>>
    ELSE <<servers[1], ", ">> \o Join(Tail(servers))

\* ---------------------------------------------------------------- messages

NoMsg == [kind |-> "", server |-> "", detail |-> <<>>]

\* f"Server '{server_name}' not found. Available servers: {available}"
NotFoundMsg(name, servers) ==
    [kind |-> "not_found", server |-> name,
     detail |-> IF servers # <<>> THEN Join(servers) ELSE <<"none">>]

\* f"Already connected to MCP server '{server_name}'"
AlreadyMsg(name) == [kind |-> "already", server |-> name, detail |-> <<>>]

\* f"Connected to MCP server '{server_name}'. {num_tools} tools are now available."
ConnectedMsg(name, num_tools) ==
    [kind |-> "connected", server |-> name, detail |-> <<NumStr(num_tools)>>]

\* f"Failed to connect to server '{server_name}': {str(e)}"
FailedMsg(name, e) == [kind |-> "failed", server |-> name, detail |-> <<e>>]

IsFailure(msg) == msg.kind \in {"not_found", "failed"}

\* ---------------------------------------------------------------- state

VARIABLES
    servers,              \* what client.get_server_names() returns
    active_server,        \* self.active_server: None or Some(name)
    server_tools,         \* self._server_tools: name -> list of tools
    initialized_servers,  \* self.initialized_servers: name -> bool
    frames,               \* per caller: its operation in progress or last finished
    completed,            \* names with a call that ended without a failure message
    connected             \* names with a call that ended with "Connected to"

vars == <<servers, active_server, server_tools, initialized_servers,
          frames, completed, connected>>

\* The manager's fields as one record.
Manager ==
    [active_server |-> active_server, server_tools |-> server_tools,
     initialized_servers |-> initialized_servers]

\* ServerManager.__init__
NewManager ==
    [active_server |-> None, server_tools |-> EmptyDict,
     initialized_servers |-> EmptyDict]

\* A caller's frame: where its coroutine is (pc), the operation it invoked
\* (op), the server_name argument (name), the collaborator calls made (calls)
\* with their answers (results), the returned value (ret) and the manager as
\* it was when the operation began (pre).
IdleFrame ==
    [pc |-> "idle", op |-> "", name |-> "", calls |-> <<>>, results |-> <<>>,
     ret |-> NoMsg, pre |-> NewManager]

NewFrame(op, name, m) ==
    [pc |-> "running", op |-> op, name |-> name, calls |-> <<>>,
     results |-> <<>>, ret |-> NoMsg, pre |-> m]

Invoke(f, fn, arg) == [f EXCEPT !.calls = Append(@, [fn |-> fn, arg |-> arg])]

Answer(f, o) == [f EXCEPT !.results = Append(@, o)]

Return(f, msg) == [f EXCEPT !.pc = "done", !.ret = msg]

InList(x, q) == \E i \in 1..Len(q) : q[i] = x

\* ---------------------------------------------------------------- connect_to_server

\* session_acquired with the cache test of line 145 left out: the tools are
\* built on every connection.
session_acquired_rebuild(m, f, session) ==
    [m |-> [m EXCEPT !.active_server = Some(f.name)],
     f |-> [Invoke(f, "create_langchain_tools", session.connector)
               EXCEPT !.pc = "create_langchain_tools"]]

\* session_acquired with line 142 moved behind the materialization and then
\* forgotten on that path: the server becomes active only if already cached.
session_acquired_deferred(m, f, session) ==
    IF f.name \notin DOMAIN m.server_tools
    THEN [m |-> m,
          f |-> [Invoke(f, "create_langchain_tools", session.connector)
                    EXCEPT !.pc = "create_langchain_tools"]]
    ELSE [m |-> [m EXCEPT !.active_server = Some(f.name)],
          f |-> Return(f, ConnectedMsg(f.name,
                    Len(DictGet(m.server_tools, f.name, <<>>))))]

\* Lines 141-155: the session is in hand.  Set the active server, then
\* either await the adapter (first materialization) or return success.
session_acquired(m, f, session) ==
    LET m1 == [m EXCEPT !.active_server = Some(f.name)]
    IN  IF f.name \notin DOMAIN m1.server_tools
        THEN [m |-> m1,
              f |-> [Invoke(f, "create_langchain_tools", session.connector)
                        EXCEPT !.pc = "create_langchain_tools"]]
        ELSE [m |-> m1,
              f |-> Return(f, ConnectedMsg(f.name,
                        Len(DictGet(m1.server_tools, f.name, <<>>))))]

\* acquire_session with a bare except at line 137: every exception of
\* get_session, not only the ValueError, leads to create_session.
acquire_session_bare_except(m, f, gs) ==
    LET f1 == Answer(Invoke(f, "get_session", f.name), gs)
    IN  IF gs.raises = ""
        THEN session_acquired(m, f1, gs.value[1])
        ELSE [m |-> m,
              f |-> [Invoke(f1, "create_session", f.name)
                        EXCEPT !.pc = "create_session"]]

\* Lines 132-139: look the session up; on the client's ValueError await
\* create_session; any other exception goes to the handler of line 157.
\* gs is what client.get_session answers.
acquire_session(m, f, gs) ==
    LET f1 == Answer(Invoke(f, "get_session", f.name), gs)
    IN  IF gs.raises = ""
        THEN session_acquired(m, f1, gs.value[1])
        ELSE IF gs.raises = "ValueError"
        THEN [m |-> m,
              f |-> [Invoke(f1, "create_session", f.name)
                        EXCEPT !.pc = "create_session"]]
        ELSE [m |-> m, f |-> Return(f1, FailedMsg(f.name, gs.raises))]

\* connect_to_server with the registry check of lines 123-126 left out.
connect_to_server_unchecked(reg, m, f, gs) ==
    IF m.active_server = Some(f.name)
    THEN [m |-> m, f |-> Return(f, AlreadyMsg(f.name))]
    ELSE acquire_session(m, f, gs)

\* connect_to_server with the short-circuit of lines 129-130 left out.
connect_to_server_reconnect(reg, m, f, gs) ==
    IF ~InList(f.name, reg)
    THEN [m |-> m, f |-> Return(f, NotFoundMsg(f.name, reg))]
    ELSE acquire_session(m, f, gs)

\* Lines 122-139: from the call to its first await (or its return).
connect_to_server(reg, m, f, gs) ==
    IF ~InList(f.name, reg)
    THEN [m |-> m, f |-> Return(f, NotFoundMsg(f.name, reg))]
    ELSE IF m.active_server = Some(f.name)
    THEN [m |-> m, f |-> Return(f, AlreadyMsg(f.name))]
    ELSE acquire_session(m, f, gs)

\* create_session_returns without the handler of lines 157-159: an exception
\* of create_session leaves the coroutine and reaches the caller.
create_session_returns_uncaught(m, f, cs) ==
    LET f1 == Answer(f, cs)
    IN  IF cs.raises = ""
        THEN session_acquired(m, f1, cs.value[1])
        ELSE [m |-> m, f |-> [f1 EXCEPT !.pc = "raised"]]

\* Line 139 resumed: create_session answered with cs.
create_session_returns(m, f, cs) ==
    LET f1 == Answer(f, cs)
    IN  IF cs.raises = ""
        THEN session_acquired(m, f1, cs.value[1])
        ELSE [m |-> m, f |-> Return(f1, FailedMsg(f.name, cs.raises))]

\* create_langchain_tools_returns storing an empty entry when the adapter
\* raised (the entry made before the await, filled after it).
create_langchain_tools_returns_store_empty(m, f, ad) ==
    LET f1 == Answer(f, ad)
        m1 == [m EXCEPT
                 !.server_tools = DictSet(@, f.name, ad.value),
                 !.initialized_servers = DictSet(@, f.name, TRUE)]
    IN  IF ad.raises = ""
        THEN [m |-> m1,
              f |-> Return(f1, ConnectedMsg(f.name,
                        Len(DictGet(m1.server_tools, f.name, <<>>))))]
        ELSE [m |-> [m EXCEPT !.server_tools = DictSet(@, f.name, <<>>)],
              f |-> Return(f1, FailedMsg(f.name, ad.raises))]

\* create_langchain_tools_returns assigning the active server again after
\* the adapter's await.
create_langchain_tools_returns_reactivate(m, f, ad) ==
    LET f1 == Answer(f, ad)
    IN  IF ad.raises = ""
        THEN LET m1 == [m EXCEPT
                          !.active_server = Some(f.name),
                          !.server_tools = DictSet(@, f.name, ad.value),
                          !.initialized_servers = DictSet(@, f.name, TRUE)]
             IN  [m |-> m1,
                  f |-> Return(f1, ConnectedMsg(f.name,
                            Len(DictGet(m1.server_tools, f.name, <<>>))))]
        ELSE [m |-> m, f |-> Return(f1, FailedMsg(f.name, ad.raises))]

\* Lines 147-159 resumed: create_langchain_tools answered with ad.
create_langchain_tools_returns(m, f, ad) ==
    LET f1 == Answer(f, ad)
    IN  IF ad.raises = ""
        THEN LET m1 == [m EXCEPT
                          !.server_tools = DictSet(@, f.name, ad.value),
                          !.initialized_servers = DictSet(@, f.name, TRUE)]
             IN  [m |-> m1,
                  f |-> Return(f1, ConnectedMsg(f.name,
                            Len(DictGet(m1.server_tools, f.name, <<>>))))]
        ELSE [m |-> m, f |-> Return(f1, FailedMsg(f.name, ad.raises))]

\* switch_server written out on its own, without the short-circuit.
switch_server_reconnect(reg, m, f, gs) == connect_to_server_reconnect(reg, m, f, gs)

\* Line 184: return await self.connect_to_server(server_name)
switch_server(reg, m, f, gs) == connect_to_server(reg, m, f, gs)

\* ---------------------------------------------------------------- queries

\* Lines 96-111.
list_servers(reg, m) ==
    IF reg = <<>>
    THEN [kind |-> "no_servers", lines |-> <<>>]
    ELSE [kind |-> "listing",
          lines |-> [k \in 1..Len(reg) |->
                       LET i == k - 1
                       IN  [number |-> i + 1, server |-> reg[k],
                            active_marker |->
                                IF Some(reg[k]) = m.active_server
                                THEN " (ACTIVE)" ELSE ""]]]

\* Lines 161-172.
get_active_server(m) ==
    IF Falsy(m.active_server)
    THEN [kind |-> "no_active", server |-> ""]
    ELSE [kind |-> "active", server |-> m.active_server[1]]

\* Lines 186-195.
get_active_server_tools(m) ==
    IF Falsy(m.active_server)
    THEN <<>>
    ELSE DictGet(m.server_tools, m.active_server[1], <<>>)

\* Lines 54-94.
get_server_management_tools ==
    << [name |-> "list_mcp_servers", args_schema |-> "ListServersInput",
        coroutine |-> "list_servers", id |-> 0],
       [name |-> "connect_to_mcp_server", args_schema |-> "ServerActionInput",
        coroutine |-> "connect_to_server", id |-> 0],
       [name |-> "get_active_mcp_server", args_schema |-> "CurrentServerInput",
        coroutine |-> "get_active_server", id |-> 0],
       [name |-> "switch_mcp_server", args_schema |-> "ServerActionInput",
        coroutine |-> "switch_server", id |-> 0] >>

\* Lines 197-205.
get_all_tools(m) == get_server_management_tools \o get_active_server_tools(m)

\* Lines 48-52: returns nothing; the value is what it logs.
initialize(reg) ==
    IF reg = <<>> THEN <<"No MCP servers defined in client configuration">> ELSE <<>>

\* ---------------------------------------------------------------- actions

Init ==
    /\ servers \in Registries
    /\ active_server = NewManager.active_server
    /\ server_tools = NewManager.server_tools
    /\ initialized_servers = NewManager.initialized_servers
    /\ frames = [t \in Tasks |-> IdleFrame]
    /\ completed = {}
    /\ connected = {}

\* The caller whose operations are observed.  Every other caller is
\* background load: its frame holds only what its coroutine needs to go on
\* (pc and name) and is cleared when its call returns.
Caller == "t1"

\* What is kept of frame f of caller t.  With rec, the observed caller's
\* frame is kept whole; without, its history (calls, results, pre) is dropped.
Kept(t, rec, f) ==
    IF t # Caller
    THEN IF f.pc = "done" THEN IdleFrame
         ELSE [IdleFrame EXCEPT !.pc = f.pc, !.name = f.name]
    ELSE IF rec THEN f
    ELSE [f EXCEPT !.calls = <<>>, !.results = <<>>, !.pre = NewManager]

\* A step of caller t's coroutine with outcome r = [m, f].
Apply(t, rec, r) ==
    /\ active_server' = r.m.active_server
    /\ server_tools' = r.m.server_tools
    /\ initialized_servers' = r.m.initialized_servers
    /\ frames' = [frames EXCEPT ![t] = Kept(t, rec, r.f)]
    /\ completed' = IF r.f.pc = "done" /\ ~IsFailure(r.f.ret)
                    THEN completed \cup {r.f.name} ELSE completed
    /\ connected' = IF r.f.pc = "done" /\ r.f.ret.kind = "connected"
                    THEN connected \cup {r.f.name} ELSE connected
    /\ UNCHANGED servers

CallConnect(t, rec) ==
    /\ frames[t].pc \in {"idle", "done"}
    /\ \E name \in ServerNames : \E gs \in SessionOutcomes(name) :
          Apply(t, rec, connect_to_server(servers, Manager,
                            NewFrame("connect_to_server", name, Manager), gs))

CallSwitch(t, rec) ==
    /\ frames[t].pc \in {"idle", "done"}
    /\ \E name \in ServerNames : \E gs \in SessionOutcomes(name) :
          Apply(t, rec, switch_server(servers, Manager,
                            NewFrame("switch_server", name, Manager), gs))

CreateSessionReturns(t, rec) ==
    /\ frames[t].pc = "create_session"
    /\ \E cs \in SessionOutcomes(frames[t].name) :
          Apply(t, rec, create_session_returns(Manager, frames[t], cs))

CreateToolsReturns(t, rec) ==
    /\ frames[t].pc = "create_langchain_tools"
    /\ \E ad \in AdapterOutcomes :
          Apply(t, rec, create_langchain_tools_returns(Manager, frames[t], ad))

\* Query reading the cache with dict.setdefault instead of dict.get: an
\* active server without a cache entry gets an empty one.
Query_setdefault(t, rec, op, value) ==
    /\ frames[t].pc \in {"idle", "done"}
    /\ frames' = [frames EXCEPT
                    ![t] = Kept(t, rec, Return(NewFrame(op, "", Manager), value))]
    /\ server_tools' = IF active_server # None
                       THEN DictSet(server_tools, active_server[1],
                                DictGet(server_tools, active_server[1], <<>>))
                       ELSE server_tools
    /\ UNCHANGED <<servers, active_server, initialized_servers,
                   completed, connected>>

\* A query operation of caller t: it has no await inside, so it is one step.
Query(t, rec, op, value) ==
    /\ frames[t].pc \in {"idle", "done"}
    /\ frames' = [frames EXCEPT
                    ![t] = Kept(t, rec, Return(NewFrame(op, "", Manager), value))]
    /\ UNCHANGED <<servers, active_server, server_tools, initialized_servers,
                   completed, connected>>

Initialize(t, rec) == Query(t, rec, "initialize", initialize(servers))

ListServers(t, rec) == Query(t, rec, "list_servers", list_servers(servers, Manager))

GetActiveServer(t, rec) ==
    Query(t, rec, "get_active_server", get_active_server(Manager))

GetActiveServerTools(t, rec) ==
    Query(t, rec, "get_active_server_tools", get_active_server_tools(Manager))

GetServerManagementTools(t, rec) ==
    Query(t, rec, "get_server_management_tools", get_server_management_tools)

GetAllTools(t, rec) == Query(t, rec, "get_all_tools", get_all_tools(Manager))

\* Any number of callers, their calls overlapping at the awaits.
Next ==
    \/ \E t \in Tasks : CallConnect(t, FALSE)
    \/ \E t \in Tasks : CallSwitch(t, FALSE)
    \/ \E t \in Tasks : CreateSessionReturns(t, FALSE)
    \/ \E t \in Tasks : CreateToolsReturns(t, FALSE)
    \/ Initialize(Caller, FALSE)
    \/ ListServers(Caller, FALSE)
    \/ GetActiveServer(Caller, FALSE)
    \/ GetActiveServerTools(Caller, FALSE)
    \/ GetServerManagementTools(Caller, FALSE)
    \/ GetAllTools(Caller, FALSE)

Spec == Init /\ [][Next]_vars

\* One caller, recorded in full: operations never overlap.
NextSeq ==
    \/ CallConnect(Caller, TRUE)
    \/ CallSwitch(Caller, TRUE)
    \/ CreateSessionReturns(Caller, TRUE)
    \/ CreateToolsReturns(Caller, TRUE)
    \/ Initialize(Caller, TRUE)
    \/ ListServers(Caller, TRUE)
    \/ GetActiveServer(Caller, TRUE)
    \/ GetActiveServerTools(Caller, TRUE)
    \/ GetServerManagementTools(Caller, TRUE)
    \/ GetAllTools(Caller, TRUE)

SpecSeq == Init /\ [][NextSeq]_vars

\* ---------------------------------------------------------------- properties
\* All properties below are stated of SpecSeq: the observed caller's frame
\* then holds its last operation whole.

ConnectOps == {"connect_to_server", "switch_server"}

\* The observed caller's frame.
F == frames[Caller]

\* F is a finished connect_to_server / switch_server call.
ConnectDone == F.pc = "done" /\ F.op \in ConnectOps

\* F is a finished query operation op.
QueryDone(op) == F.pc = "done" /\ F.op = op

\* C1: a connect_to_server / switch_server call that returns a failure
\* message ("not found" or "Failed to connect") leaves the active server as it
\* was before the call, and the active server changes only in calls that
\* return "Connected to".
C1_FailureKeepsActive ==
    ConnectDone =>
        /\ IsFailure(F.ret) => active_server = F.pre.active_server
        /\ active_server # F.pre.active_server => F.ret.kind = "connected"

\* The "not found" text for name over registry reg, written from the message
\* format: the known names separated by ", ", or "none".
ExpectedNotFound(name, reg) ==
    [kind |-> "not_found", server |-> name,
     detail |-> IF Len(reg) = 0 THEN <<"none">>
                ELSE [i \in 1..(2 * Len(reg) - 1) |->
                        IF i % 2 = 1 THEN reg[(i + 1) \div 2] ELSE ", "]]

\* C2: for a name that is not in the registry, connect_to_server returns the
\* "not found" message listing the known names (or "none"), calls neither
\* get_session, create_session nor the adapter, and leaves the active server,
\* the tool cache and the initialized-servers map unchanged.
C2_UnknownServer ==
    (ConnectDone /\ ~InList(F.name, servers)) =>
        /\ F.ret = ExpectedNotFound(F.name, servers)
        /\ F.calls = <<>>
        /\ Manager = F.pre

C2_Witness ==
    /\ ConnectDone
    /\ ~InList(F.name, servers)
    /\ Len(servers) = 2
    /\ active_server # None
    /\ server_tools # EmptyDict

C2_WitnessEmptyRegistry ==
    ConnectDone /\ servers = <<>> /\ F.ret.detail = <<"none">>

\* C3: between operations, a name is a key of the tool cache if and only if
\* some connect_to_server / switch_server call for it has completed without a
\* failure message (the "Already connected" return included).
C3_CachedIffCompleted ==
    F.pc \in {"idle", "done"} =>
        \A n \in ServerNames : n \in DOMAIN server_tools <=> n \in completed

\* The step makes the observed caller's coroutine invoke the adapter for x.
AdapterInvoked(x) ==
    /\ F.pc # "create_langchain_tools"
    /\ F'.pc = "create_langchain_tools"
    /\ F'.name = x

\* C4: once a connect to x has returned "Connected to", the cache entry of x
\* is never replaced, changed or removed, and the adapter is never invoked
\* for x again.
C4_MaterializedOnce ==
    [][\A x \in connected :
          /\ x \in DOMAIN server_tools
          /\ x \in DOMAIN server_tools'
          /\ server_tools'[x] = server_tools[x]
          /\ ~AdapterInvoked(x)]_vars

\* x was connected, another server was active since, and a connect back to x
\* has returned "Connected to".
C4_Witness ==
    /\ ConnectDone
    /\ F.ret.kind = "connected"
    /\ F.name \in DOMAIN F.pre.server_tools
    /\ F.pre.active_server # None
    /\ F.pre.active_server # Some(F.name)
    /\ Len(server_tools[F.name]) > 0

\* C5: a connect_to_server(X) that follows at once a connect_to_server(X)
\* that returned "Connected to" returns "Already connected", makes no
\* collaborator call and leaves the manager as it was.
C5_ConnectIdempotent ==
    [][(/\ ConnectDone
        /\ F.ret.kind = "connected"
        /\ F' # F
        /\ F'.op \in ConnectOps
        /\ F'.name = F.name)
       => (/\ F'.pc = "done"
           /\ F'.ret = [kind |-> "already", server |-> F.name, detail |-> <<>>]
           /\ F'.calls = <<>>
           /\ Manager' = Manager
           /\ F'.pre = Manager)]_vars

C5_Witness ==
    /\ ConnectDone
    /\ F.ret.kind = "already"
    /\ F.name \in connected
    /\ active_server = Some(F.name)
    /\ F.name \in DOMAIN server_tools
    /\ Len(server_tools[F.name]) > 0
    /\ DOMAIN initialized_servers = {F.name}

\* connect_to_server run from manager m to its return with nothing in
\* between, the collaborators answering with answers, in order.
RunConnect(reg, m, f, answers) ==
    LET ans(i) == IF i <= Len(answers) THEN answers[i] ELSE Raised("Exception")
        s1 == connect_to_server(reg, m, f, ans(1))
        s2 == IF s1.f.pc = "create_session"
              THEN create_session_returns(s1.m, s1.f, ans(2)) ELSE s1
        s3 == IF s2.f.pc = "create_langchain_tools"
              THEN create_langchain_tools_returns(s2.m, s2.f,
                       ans(Len(s2.f.results) + 1))
              ELSE s2
    IN  s3

\* C6: a finished switch_server(name) returned the message, made the
\* collaborator calls and left the manager that connect_to_server(name) does
\* from the same manager with the same collaborator answers.
C6_SwitchIsConnect ==
    (F.pc = "done" /\ F.op = "switch_server") =>
        LET r == RunConnect(servers, F.pre,
                            NewFrame("connect_to_server", F.name, F.pre), F.results)
        IN  /\ r.f.pc = "done"
            /\ r.f.ret = F.ret
            /\ r.f.calls = F.calls
            /\ r.m = Manager

C6_Witness ==
    /\ F.pc = "done"
    /\ F.op = "switch_server"
    /\ F.ret.kind = "connected"
    /\ F.pre.active_server # None
    /\ Len(F.calls) = 3

\* The cached tool list of the active server; empty when none is active or
\* the active server has no cache entry.
ActiveCacheEntry ==
    IF active_server = None THEN <<>>
    ELSE DictGet(server_tools, active_server[1], <<>>)

\* C7: get_all_tools returns the four management actions (list, connect,
\* get-active, switch, in that order) followed by the result of
\* get_active_server_tools; its length is 4 plus the length of the active
\* server's cached action sequence, and 4 when no server is active.
C7_AllToolsLength ==
    QueryDone("get_all_tools") =>
        /\ Len(F.ret) >= 4
        /\ [i \in 1..4 |-> F.ret[i].coroutine]
             = <<"list_servers", "connect_to_server", "get_active_server",
                 "switch_server">>
        /\ SubSeq(F.ret, 5, Len(F.ret)) = get_active_server_tools(Manager)
        /\ Len(F.ret) = 4 + Len(ActiveCacheEntry)

\* C8: get_active_server_tools returns the cache entry of the current active
\* server and nothing else: empty when no server is active or the active
\* server has no entry, and the entry of the server switched to afterwards.
C8_ActiveToolsAreCacheEntry ==
    QueryDone("get_active_server_tools") => F.ret = ActiveCacheEntry

\* C9: get_active_server returns the "No MCP server is currently active"
\* prompt at every point before the first connect_to_server / switch_server
\* call that returns "Connected to", and "Currently active MCP server: X"
\* right after a connect to X has returned "Connected to".
C9_ActiveServerMessage ==
    [][(F' # F /\ F'.pc = "done" /\ F'.op = "get_active_server")
       => (/\ connected = {} => F'.ret.kind = "no_active"
           /\ (ConnectDone /\ F.ret.kind = "connected")
                 => F'.ret = [kind |-> "active", server |-> F.name])]_vars

\* C10: with a non-empty registry, list_servers returns one line per known
\* name, numbered from 1 in registry order; a line is marked "(ACTIVE)" if
\* and only if its name is the active server; no line is marked before any
\* connect has returned "Connected to".
C10_ListServers ==
    (QueryDone("list_servers") /\ servers # <<>>) =>
        /\ F.ret.kind = "listing"
        /\ Len(F.ret.lines) = Len(servers)
        /\ \A k \in 1..Len(servers) :
              /\ F.ret.lines[k].number = k
              /\ F.ret.lines[k].server = servers[k]
              /\ F.ret.lines[k].active_marker = " (ACTIVE)"
                    <=> active_server = Some(servers[k])
              /\ F.ret.lines[k].active_marker \in {"", " (ACTIVE)"}
        /\ connected = {} =>
              \A k \in 1..Len(servers) : F.ret.lines[k].active_marker = ""

\* C11: the registry being fixed, the active server is none or one of the
\* names get_server_names returns, and at most one server is active.  Stated
\* of Spec: it holds with calls overlapping at the awaits too.
C11_ActiveIsKnown ==
    \/ active_server = None
    \/ Len(active_server) = 1 /\ InList(active_server[1], servers)

\* The second server of the registry is active while another call is pending.
C11_Witness ==
    /\ Len(servers) = 2
    /\ active_server = Some(servers[2])
    /\ \E t \in Tasks : frames[t].pc = "create_langchain_tools"
                         /\ frames[t].name = servers[1]

\* Some collaborator call of frame f raised, other than get_session raising
\* its no-session ValueError.
Faulted(f) ==
    \E i \in 1..Len(f.results) :
        /\ f.results[i].raises # ""
        /\ ~(f.calls[i].fn = "get_session" /\ f.results[i].raises = "ValueError")

\* The exception text of the last collaborator answer of frame f.
LastRaised(f) == f.results[Len(f.results)].raises

\* C12: connect_to_server never lets a fault reach its caller: whichever of
\* get_session, create_session or the adapter raises, and whatever it raises
\* (a ValueError of create_session or of the adapter included), the call ends
\* by returning a message, and the message is "Failed to connect" exactly when
\* a fault other than get_session's no-session signal occurred.
C12_FaultsBecomeMessages ==
    F.op \in ConnectOps =>
        /\ F.pc \in {"create_session", "create_langchain_tools", "done"}
        /\ F.pc # "done" => ~Faulted(F)
        /\ F.pc = "done" =>
              /\ F.ret.kind \in {"not_found", "already", "connected", "failed"}
              /\ F.ret.kind = "failed" <=> Faulted(F)
              /\ F.ret.kind = "failed" =>
                    F.ret = [kind |-> "failed", server |-> F.name,
                             detail |-> <<LastRaised(F)>>]

\* create_session raised a ValueError after get_session's no-session signal,
\* and the call returned the failure message.
C12_Witness ==
    /\ ConnectDone
    /\ Len(F.results) = 2
    /\ F.results[1].raises = "ValueError"
    /\ F.results[2].raises = "ValueError"
    /\ F.ret.kind = "failed"

QueryOps ==
    {"initialize", "list_servers", "get_active_server", "get_active_server_tools",
     "get_server_management_tools", "get_all_tools"}

\* C13: initialize, list_servers, get_active_server, get_active_server_tools,
\* get_server_management_tools and get_all_tools leave the active server, the
\* tool cache and the initialized-servers map unchanged in every state (also
\* while a connect of another caller is suspended), and call neither
\* get_session, create_session nor the adapter.
C13_QueriesChangeNothing ==
    [][(F' # F /\ F'.op \in QueryOps)
       => (/\ Manager' = Manager
           /\ F'.pc = "done"
           /\ F'.calls = <<>>
           /\ \A t \in Tasks \ {Caller} : frames'[t] = frames[t])]_vars

\* get_all_tools has answered with a server's tools while another caller's
\* connect is suspended in create_session.
C13_Witness ==
    /\ QueryDone("get_all_tools")
    /\ Len(F.ret) > 4
    /\ \E t \in Tasks : frames[t].pc = "create_session"

\* How many of the collaborator calls of frame f are calls of fn.
CallCount(f, fn) == Cardinality({i \in 1..Len(f.calls) : f.calls[i].fn = fn})

\* C14: a connect_to_server call for a known name that is not the active
\* server calls get_session exactly once and first; it calls create_session
\* at most once, and only right after get_session raised its no-session
\* ValueError; it does not call create_session when get_session returned a
\* session; the no-session signal alone never yields a failure message; no
\* collaborator call is made twice within one call.
C14_SessionAcquisitionOrder ==
    (/\ F.op \in ConnectOps
     /\ InList(F.name, servers)
     /\ F.pre.active_server # Some(F.name)) =>
        /\ Len(F.calls) >= 1
        /\ F.calls[1] = [fn |-> "get_session", arg |-> F.name]
        /\ CallCount(F, "get_session") = 1
        /\ CallCount(F, "create_session") <= 1
        /\ CallCount(F, "create_langchain_tools") <= 1
        /\ \A i \in 1..Len(F.calls) :
              F.calls[i].fn = "create_session" =>
                  /\ i = 2
                  /\ F.results[1].raises = "ValueError"
                  /\ F.calls[i].arg = F.name
        /\ F.results[1].raises = "" => CallCount(F, "create_session") = 0
        /\ F.results[1].raises = "ValueError" => CallCount(F, "create_session") = 1
        /\ (/\ F.pc = "done"
            /\ F.results[1].raises = "ValueError"
            /\ \A i \in 2..Len(F.results) : F.results[i].raises = "")
              => F.ret.kind = "connected"

\* get_session raised the no-session signal, create_session returned a
\* session, the adapter built the tools.
C14_Witness ==
    /\ ConnectDone
    /\ Len(F.calls) = 3
    /\ F.calls[2].fn = "create_session"
    /\ F.calls[3].fn = "create_langchain_tools"
    /\ F.ret.kind = "connected"

\* The last collaborator call of the finished call F was the adapter's tool
\* construction, and it raised.
AdapterFailed ==
    /\ ConnectDone
    /\ Len(F.calls) >= 2
    /\ F.calls[Len(F.calls)].fn = "create_langchain_tools"
    /\ Len(F.results) = Len(F.calls)
    /\ LastRaised(F) # ""

\* C15: when the session of a known, non-active, not yet cached server X was
\* acquired and the adapter's tool construction then raises, connect_to_server
\* returns "Failed to connect" and ends with X active, no cache entry for X
\* and X not marked initialized, so that get_active_server_tools is empty.
C15_ActiveWithoutTools ==
    AdapterFailed =>
        /\ InList(F.name, servers)
        /\ F.pre.active_server # Some(F.name)
        /\ F.name \notin DOMAIN F.pre.server_tools
        /\ F.ret.kind = "failed"
        /\ active_server = Some(F.name)
        /\ F.name \notin DOMAIN server_tools
        /\ F.name \notin DOMAIN initialized_servers
        /\ get_active_server_tools(Manager) = <<>>

\* The adapter raised for the second server while the first is cached.
C15_Witness ==
    /\ AdapterFailed
    /\ F.pre.active_server # None
    /\ DOMAIN server_tools # {}
    /\ Len(F.calls) = 3

\* C16: a connect_to_server / switch_server call that returns a failure
\* message leaves the tool cache and the initialized-servers map as they were
\* before the call, wherever it failed (unknown name, get_session,
\* create_session, adapter); a failed tool construction stores no entry.
C16_FailureKeepsCache ==
    (ConnectDone /\ IsFailure(F.ret)) =>
        /\ server_tools = F.pre.server_tools
        /\ initialized_servers = F.pre.initialized_servers
        /\ AdapterFailed => F.name \notin DOMAIN server_tools

\* The adapter raised for one server while another one is cached.
C16_Witness ==
    /\ AdapterFailed
    /\ IsFailure(F.ret)
    /\ DOMAIN F.pre.server_tools # {}
    /\ DOMAIN F.pre.initialized_servers # {}

\* The other failure points: unknown name, get_session, create_session.
C16_WitnessSession ==
    /\ ConnectDone
    /\ F.ret.kind = "failed"
    /\ Len(F.calls) = 2
    /\ F.calls[2].fn = "create_session"
    /\ DOMAIN F.pre.server_tools # {}

\* C17: with two connect_to_server calls for different known servers
\* overlapping at the awaits of create_session and of the adapter, a call for
\* one server returns "Connected to" while the other server is the active one
\* (the state C17_Witness, reached under Spec).  What makes it so, stated of
\* every step: the step that resumes a call from the adapter's await and
\* returns "Connected to X" reports the X of its own call and leaves the
\* active server as the other calls have set it meanwhile.
C17_ReturnKeepsActive ==
    [][(/\ F.pc = "create_langchain_tools"
        /\ F'.pc = "done")
       => (/\ F'.name = F.name
           /\ F'.ret.server = F.name
           /\ active_server' = active_server)]_vars

\* The observed call for "a" has returned "Connected to" and the active
\* server is "b".
C17_Witness ==
    /\ servers = <<"a", "b">>
    /\ ConnectDone
    /\ F.name = "a"
    /\ F.ret.kind = "connected"
    /\ F.ret.server = "a"
    /\ active_server = Some("b")

\* Caller t is suspended in the adapter's tool construction for x.
Materializing(t, x) ==
    frames[t].pc = "create_langchain_tools" /\ frames[t].name = x

\* C18: under every interleaving of overlapping connect_to_server calls the
\* cache entry of a name is populated exactly once: an entry, once written,
\* is never overwritten or removed, and the adapter is never invoked for a
\* server while an earlier invocation for it is pending or has succeeded.
C18_PopulatedOnce ==
    [][/\ \A x \in DOMAIN server_tools :
             /\ x \in DOMAIN server_tools'
             /\ server_tools'[x] = server_tools[x]
       /\ \A x \in ServerNames : \A t \in Tasks :
             (~Materializing(t, x) /\ Materializing(t, x)') =>
                 /\ x \notin DOMAIN server_tools
                 /\ \A u \in Tasks \ {t} : ~Materializing(u, x)]_vars

\* The entry of a name, once written, keeps its value (the first half of C18
\* alone): violated by a later-finishing call that stores another list.
C18_NeverOverwritten ==
    [][\A x \in DOMAIN server_tools :
          x \in DOMAIN server_tools' /\ server_tools'[x] = server_tools[x]]_vars

\* In the frame f a session was acquired (get_session or create_session
\* returned one).
SessionAcquired(f) ==
    \E i \in 1..Len(f.results) :
        /\ f.results[i].raises = ""
        /\ f.calls[i].fn \in {"get_session", "create_session"}

\* C19: after a connect_to_server(X) whose tool construction failed, a
\* connect_to_server(X) that follows at once returns "Already connected"
\* without calling get_session, create_session or the adapter, and X stays
\* active with no cache entry.  In a non-overlapping sequence the entry of X
\* can then be made only by a connect to X that follows a successful session
\* acquisition for another server: an entry for x is made only by a connect
\* to x that began while x was not the active server, and the active server
\* changes only to the name of a call that has acquired its session.
C19_StuckUntilSwitch ==
    [][/\ (/\ AdapterFailed
           /\ F' # F
           /\ F'.op \in ConnectOps
           /\ F'.name = F.name)
          => (/\ F'.pc = "done"
              /\ F'.ret = [kind |-> "already", server |-> F.name, detail |-> <<>>]
              /\ F'.calls = <<>>
              /\ Manager' = Manager
              /\ active_server' = Some(F.name)
              /\ F.name \notin DOMAIN server_tools')
       /\ \A x \in ServerNames :
             (x \notin DOMAIN server_tools /\ x \in DOMAIN server_tools')
                => (/\ F'.op \in ConnectOps
                    /\ F'.name = x
                    /\ F'.pre.active_server # Some(x))
       /\ active_server' # active_server
             => (/\ F'.op \in ConnectOps
                 /\ active_server' = Some(F'.name)
                 /\ SessionAcquired(F'))]_vars

\* "Already connected" was returned for an active server without cache
\* entry: the state only a failed tool construction leads to.
C19_Witness ==
    /\ ConnectDone
    /\ F.ret.kind = "already"
    /\ active_server = Some(F.name)
    /\ F.name \notin DOMAIN server_tools
    /\ F.calls = <<>>

\* The entry of a server was made by a connect that began with another
\* server active.
C19_WitnessSwitchBack ==
    /\ ConnectDone
    /\ F.ret.kind = "connected"
    /\ F.name \notin DOMAIN F.pre.server_tools
    /\ F.pre.active_server # None
    /\ F.pre.active_server[1] \notin DOMAIN F.pre.server_tools

\* The two maps have the same keys, every flag is true and every key is a
\* registered name.  This part of C20 holds under every interleaving: lines
\* 147-150 store the entry and the flag with no suspension between them.
C20_KeysAgree ==
    /\ DOMAIN initialized_servers = DOMAIN server_tools
    /\ \A x \in DOMAIN initialized_servers :
          /\ initialized_servers[x] = TRUE
          /\ InList(x, servers)

\* A flag once set stays set and true.
C20_FlagKept ==
    [][\A x \in DOMAIN initialized_servers :
          /\ x \in DOMAIN initialized_servers'
          /\ initialized_servers'[x] = TRUE]_vars

\* C20: in every state between operations or at a suspension point the
\* initialized-servers map and the tool cache have the same keys, every flag
\* is true and every key is a registered name; a flag once set is never
\* cleared, and never written again: the call that completes line 150 for a
\* name finds no flag for that name.
C20_FlagWriteOnce ==
    [][/\ C20_KeysAgree'
       /\ \A x \in DOMAIN initialized_servers :
             /\ x \in DOMAIN initialized_servers'
             /\ initialized_servers'[x] = TRUE
       /\ (/\ F.pc = "create_langchain_tools"
           /\ F'.pc = "done"
           /\ F'.ret.kind = "connected")
          => F.name \notin DOMAIN initialized_servers]_vars

====
